---- MODULE Spec2Model ----
(***************************************************************************)
(* A model of cg-ion-upgrade.py: the staged firmware transition of one     *)
(* ION appliance (go, is_upgrade_or_downgrade, staged_upgrade,             *)
(* staged_downgrade, execute_upgrade, wait_for_upgade) against a model of  *)
(* the remote device API.                                                  *)
(*                                                                         *)
(* Python strings are sequences of one-character strings, so that the      *)
(* substring test (`in`), re.match and re.search are computed as the code  *)
(* computes them.  Python's None is the one-element sequence <<"None">>,   *)
(* which no version string equals.                                         *)
(***************************************************************************)
EXTENDS Integers, Sequences, FiniteSets, TLC

None == <<"None">>

Digits == {"0", "1", "2", "3", "4", "5", "6", "7", "8", "9"}

DigitVal(c) ==
    CASE c = "0" -> 0 [] c = "1" -> 1 [] c = "2" -> 2 [] c = "3" -> 3
      [] c = "4" -> 4 [] c = "5" -> 5 [] c = "6" -> 6 [] c = "7" -> 7
      [] c = "8" -> 8 [] c = "9" -> 9

(* ---------------- version strings used by the model ------------------- *)
V_4_5_2     == <<"4", ".", "5", ".", "2">>
V_4_5_3     == <<"4", ".", "5", ".", "3">>
V_4_5_9     == <<"4", ".", "5", ".", "9">>
V_4_7_1     == <<"4", ".", "7", ".", "1">>
V_5_0_3     == <<"5", ".", "0", ".", "3">>
V_5_0_3_b9  == <<"5", ".", "0", ".", "3", "-", "b", "9">>
V_5_1_5     == <<"5", ".", "1", ".", "5">>
V_5_2_3     == <<"5", ".", "2", ".", "3">>
V_5_2_7     == <<"5", ".", "2", ".", "7">>
V_5_2_7_b22 == <<"5", ".", "2", ".", "7", "-", "b", "2", "2">>
V_5_2_7_b30 == <<"5", ".", "2", ".", "7", "-", "b", "3", "0">>
V_5_4_1     == <<"5", ".", "4", ".", "1">>
V_5_4_3     == <<"5", ".", "4", ".", "3">>
V_9_9_9     == <<"9", ".", "9", ".", "9">>

(* ---------------- string primitives ----------------------------------- *)
\* Python `sub in s` for two strings: s contains sub as a contiguous run.
StrIn(sub, s) ==
    \E i \in 0..(Len(s) - Len(sub)) : SubSeq(s, i + 1, i + Len(sub)) = sub

\* The least element of a non-empty set of integers.
MinOf(S) == CHOOSE x \in S : \A y \in S : x <= y

\* Index of the last character of the run of digits starting at i (i - 1
\* when s[i] is no digit): what a greedy \d+ consumes from position i.
DigitRunEnd(s, i) ==
    IF i > Len(s) \/ s[i] \notin Digits THEN i - 1
    ELSE MinOf({j \in i..Len(s) : j = Len(s) \/ s[j + 1] \notin Digits})

\* int() of the digit string s[i..j].
RECURSIVE IntOf(_, _, _)
IntOf(s, i, j) ==
    IF j < i THEN 0 ELSE IntOf(s, i, j - 1) * 10 + DigitVal(s[j])

\* The groups of '(\d+)\.(\d+)\.(\d+)' matched at position i, or <<>>.
GroupsAt(s, i) ==
    LET e1 == DigitRunEnd(s, i)
        e2 == DigitRunEnd(s, e1 + 2)
        e3 == DigitRunEnd(s, e2 + 2)
    IN  IF /\ e1 >= i
           /\ e1 + 1 <= Len(s) /\ s[e1 + 1] = "."
           /\ e2 >= e1 + 2
           /\ e2 + 1 <= Len(s) /\ s[e2 + 1] = "."
           /\ e3 >= e2 + 2
        THEN <<IntOf(s, i, e1), IntOf(s, e1 + 2, e2), IntOf(s, e2 + 2, e3)>>
        ELSE <<>>

\* re.search finds no match (the code then fails on .groups()).
NoVersionIn(s) == \A i \in 1..Len(s) : GroupsAt(s, i) = <<>>

\* major_minor_micro: the integers of the leftmost major.minor.micro.
major_minor_micro(version) ==
    GroupsAt(version, MinOf({i \in 1..Len(version) : GroupsAt(version, i) # <<>>}))

\* re.match(path, s) for the path-table patterns, which all have the form
\* <literal prefix>.* : the string starts with the literal prefix.
ReMatch(prefix, s) ==
    Len(s) >= Len(prefix) /\ SubSeq(s, 1, Len(prefix)) = prefix

\* str(n) for a non-negative integer n.
RECURSIVE StrOfInt(_)
StrOfInt(n) ==
    LET d == CHOOSE c \in Digits : DigitVal(c) = n % 10
    IN  IF n < 10 THEN <<d>> ELSE Append(StrOfInt(n \div 10), d)

\* re.sub('\D', '', s): s without its non-digit characters.
StripNonDigits(s) == SelectSeq(s, LAMBDA c : c \in Digits)

\* Python's a < b on two digit strings: lexicographic, a proper prefix first.
RECURSIVE StrLess(_, _)
StrLess(a, b) ==
    IF b = <<>> THEN FALSE
    ELSE IF a = <<>> THEN TRUE
    ELSE IF Head(a) # Head(b) THEN DigitVal(Head(a)) < DigitVal(Head(b))
    ELSE StrLess(Tail(a), Tail(b))

\* Python's a < b on two (major, minor, micro) tuples.
TupleLess(a, b) ==
    \/ a[1] < b[1]
    \/ a[1] = b[1] /\ a[2] < b[2]
    \/ a[1] = b[1] /\ a[2] = b[2] /\ a[3] < b[3]

(* ---------------- the path tables (lines 44-58) ----------------------- *)
\* An entry is a pattern, given by its literal prefix (the pattern is the
\* prefix followed by .*), and the version specifier of the next hop.  A
\* dict iterates in insertion order: the order of the sequence.
P_4_5 == <<"4", ".", "5", ".">>
P_4_7 == <<"4", ".", "7", ".">>
P_5_0 == <<"5", ".", "0", ".">>
P_5_1 == <<"5", ".", "1", ".">>
P_5_2 == <<"5", ".", "2", ".">>
P_5_4 == <<"5", ".", "4", ".">>
P_4   == <<"4", ".">>
P_5   == <<"5", ".">>

upgrade_path_regex ==
    << [pattern |-> P_4_5, hop |-> V_4_7_1],
       [pattern |-> P_4_7, hop |-> V_5_0_3],
       [pattern |-> P_5_0, hop |-> V_5_2_7],
       [pattern |-> P_5_1, hop |-> V_5_2_7],
       [pattern |-> P_5_2, hop |-> V_5_4_3] >>

downgrade_path_regex ==
    << [pattern |-> P_4_7, hop |-> V_4_5_3],
       [pattern |-> P_5_0, hop |-> V_4_7_1],
       [pattern |-> P_5_1, hop |-> V_4_7_1],
       [pattern |-> P_5_2, hop |-> V_5_0_3],
       [pattern |-> P_5_4, hop |-> V_5_2_7] >>

(* ---------------- the image catalog ------------------------------------ *)
\* image_dict: the images in the order the API lists them, each with its
\* version (the dict key) and its id.  get_images_list returns None when
\* the API call fails: NoDict.
NoDict == << [version |-> None, id |-> ""] >>

\* image_dict[version]['id']
ImageIdOf(image_dict, version) ==
    LET i == MinOf({k \in 1..Len(image_dict) : image_dict[k].version = version})
    IN  image_dict[i].id

\* Mutant: the first key that starts with the version.
get_exact_byPrefix(version, image_dict) ==
    LET hits == {k \in 1..Len(image_dict) :
                   /\ Len(image_dict[k].version) >= Len(version)
                   /\ SubSeq(image_dict[k].version, 1, Len(version)) = version}
    IN  IF hits = {} THEN None ELSE image_dict[MinOf(hits)].version

\* get_exact_major_minor_micro (lines 189-193): the first key, in iteration
\* order, that contains the version; None when no key does.
get_exact_major_minor_micro(version, image_dict) ==
    LET hits == {k \in 1..Len(image_dict) : StrIn(version, image_dict[k].version)}
    IN  IF hits = {} THEN None ELSE image_dict[MinOf(hits)].version

\* The loop of lines 210-212 (251-253): the last key that contains
\* max_version; None when no key does.
LastKeyContaining(max_version, image_dict) ==
    LET hits == {k \in 1..Len(image_dict) : StrIn(max_version, image_dict[k].version)}
    IN  IF hits = {} THEN None
        ELSE image_dict[CHOOSE k \in hits : \A j \in hits : j <= k].version

\* max(image_dict.keys(), key=major_minor_micro): the first key, in
\* iteration order, whose tuple no other key's tuple exceeds.
MaxKey(image_dict) ==
    LET best == {k \in 1..Len(image_dict) :
                   \A j \in 1..Len(image_dict) :
                      ~TupleLess(major_minor_micro(image_dict[k].version),
                                 major_minor_micro(image_dict[j].version))}
    IN  image_dict[MinOf(best)].version

\* min(image_dict.keys(), key=major_minor_micro)
MinKey(image_dict) ==
    LET best == {k \in 1..Len(image_dict) :
                   \A j \in 1..Len(image_dict) :
                      ~TupleLess(major_minor_micro(image_dict[j].version),
                                 major_minor_micro(image_dict[k].version))}
    IN  image_dict[MinOf(best)].version

(* ---------------- the direction decider -------------------------------- *)
\* Mutant: equal minors count as an upgrade.
CompareVersions_tieIsUpgrade(current_version, exact_target_version) ==
    LET t == major_minor_micro(exact_target_version)
        c == major_minor_micro(current_version)
    IN  IF c[1] < t[1] THEN "upgrade"
        ELSE IF c[1] > t[1] THEN "downgrade"
        ELSE IF c[2] <= t[2] THEN "upgrade"
        ELSE "downgrade"

\* Lines 296-316 of is_upgrade_or_downgrade, for a resolved target and a
\* current version that both parse.  The third comparison is made on
\* current_minor and target_minor, converted to strings and stripped of
\* non-digits, as the code makes it.
CompareVersions(current_version, exact_target_version) ==
    LET t == major_minor_micro(exact_target_version)
        c == major_minor_micro(current_version)
        current_minor == StripNonDigits(StrOfInt(c[2]))
        target_minor  == StripNonDigits(StrOfInt(t[2]))
    IN  IF c[1] < t[1] THEN "upgrade"
        ELSE IF c[1] > t[1] THEN "downgrade"
        ELSE IF c[2] < t[2] THEN "upgrade"
        ELSE IF c[2] > t[2] THEN "downgrade"
        ELSE IF StrLess(current_minor, target_minor) THEN "upgrade"
        ELSE IF StrLess(target_minor, current_minor) THEN "downgrade"
        ELSE "None"

(* ---------------- the hop loop ----------------------------------------- *)
\* Lines 217-222 (258-263): every entry of the table is visited in order;
\* each entry whose pattern matches current_version overwrites
\* upgrade_version and upgrade_image_id.  image_dict[None] raises KeyError
\* when the entry's hop matches no key: the loop ends there (raised).
\* `spec` records the hop specifier of the entry that set upgrade_version.
NoHop == [raised |-> FALSE, version |-> None, id |-> "", spec |-> None]

RECURSIVE HopLoop(_, _, _, _, _)
HopLoop(table, current_version, image_dict, i, acc) ==
    IF i > Len(table) THEN acc
    ELSE IF ReMatch(table[i].pattern, current_version)
    THEN LET uv == get_exact_major_minor_micro(table[i].hop, image_dict)
         IN  IF uv = None
             THEN [raised |-> TRUE, version |-> None, id |-> acc.id,
                   spec |-> table[i].hop]
             ELSE HopLoop(table, current_version, image_dict, i + 1,
                          [raised |-> FALSE, version |-> uv,
                           id |-> ImageIdOf(image_dict, uv),
                           spec |-> table[i].hop])
    ELSE HopLoop(table, current_version, image_dict, i + 1, acc)

NextHop(table, current_version, image_dict) ==
    HopLoop(table, current_version, image_dict, 1, NoHop)

(* ---------------- bounds and input sets -------------------------------- *)
MaxStepsBound      == 2
MaxWaitUnits       == 3
MaxRemoteChanges   == 1
DefaultMaxSteps    == 5
SleepInterval      == 10

\* Every image the remote repository can list; an image's id is its index.
AllImages ==
    <<V_4_5_3, V_4_7_1, V_5_0_3, V_5_2_7_b22, V_5_2_7_b30, V_5_4_3, V_5_1_5>>
ImageIds == <<"id1", "id2", "id3", "id4", "id5", "id6", "id7">>

Img(k) == [version |-> AllImages[k], id |-> ImageIds[k]]

\* The version of the image with the given id.
VersionOfId(id) == AllImages[CHOOSE k \in 1..Len(ImageIds) : ImageIds[k] = id]

CatFull     == <<Img(1), Img(2), Img(3), Img(4), Img(6)>>
CatNoHop    == <<Img(3), Img(6)>>
CatTwoBuild == <<Img(5), Img(4), Img(3)>>

Catalogs       == {CatFull, CatNoHop, CatTwoBuild}
DeviceVersions == {V_4_5_9, V_5_0_3, V_5_2_3, V_5_2_7_b22, V_5_4_1}
Targets        == {None, V_5_2_7, V_4_5_3}
CliActions     == {"auto", "upgrade", "downgrade"}
StepBudgets    == (0..MaxStepsBound) \cup {DefaultMaxSteps}
WaitBudgets    == {0} \cup {5 * k : k \in 2..MaxWaitUnits}

\* The software_state record of the device: the image reference and the
\* fields the script never touches.
InitialState == [image_id |-> "", scheduled_upgrade |-> "none", interval |-> "daily"]

VARIABLES
    \* CLIARGS and the module's path tables
    cli_action, max_steps, max_wait, version_target, upTable, downTable,
    \* the remote side: image repository, device, its software state
    catalog, devVersion, devState, installing, drifts, catChanges,
    \* the script: position and local variables
    pc, element_id, action, step, image_dict, current_version, max_version,
    exact_max_version, upgrade_version, upgrade_image_id, software_state_data,
    w_version, w_left, w_ret, topRet, goRet, exc,
    \* history
    last, last_ok, callFailed, outcome, nreq, hopSpec, w_reads, w_sleeps,
    w_failed_at, logouts, startVersion,
    \* history of the change requests: reads and writes of the software
    \* state made so far, the version the device reported when the latest
    \* request was decided, and the one before it
    sw_reads, sw_writes, reqAt, prevReqAt

cliVars  == <<cli_action, max_steps, max_wait, version_target, upTable, downTable>>
envVars  == <<catalog, devVersion, devState, installing, drifts, catChanges>>
locVars  == <<element_id, action, step, image_dict, current_version, max_version,
              exact_max_version, upgrade_version, upgrade_image_id,
              software_state_data, w_version, w_left, w_ret, topRet, goRet, exc>>
histVars == <<outcome, nreq, hopSpec, w_reads, w_sleeps, w_failed_at, logouts,
              startVersion>>
apiVars  == <<last, last_ok, callFailed>>
reqVars  == <<sw_reads, sw_writes, reqAt, prevReqAt>>
vars     == <<cliVars, envVars, pc, locVars, apiVars, histVars, reqVars>>

InitRest ==
    /\ devState = InitialState
    /\ installing = ""
    /\ drifts = 0
    /\ catChanges = 0
    /\ pc = "find_ion"
    /\ element_id = "False"
    /\ action = "None"
    /\ step = 0
    /\ image_dict = NoDict
    /\ current_version = None
    /\ max_version = None
    /\ exact_max_version = None
    /\ upgrade_version = None
    /\ upgrade_image_id = ""
    /\ software_state_data = InitialState
    /\ w_version = None
    /\ w_left = 0
    /\ w_ret = "unset"
    /\ topRet = "unset"
    /\ goRet = "unset"
    /\ exc = "none"
    /\ last = "start"
    /\ last_ok = TRUE
    /\ callFailed = FALSE
    /\ outcome = "RUNNING"
    /\ nreq = 0
    /\ hopSpec = None
    /\ w_reads = 0
    /\ w_sleeps = 0
    /\ w_failed_at = 0
    /\ logouts = 0
    /\ sw_reads = 0
    /\ sw_writes = 0
    /\ reqAt = None
    /\ prevReqAt = None

Init ==
    /\ cli_action \in CliActions
    /\ max_steps \in StepBudgets
    /\ max_wait \in WaitBudgets
    /\ version_target \in Targets
    /\ catalog \in Catalogs
    /\ devVersion \in DeviceVersions
    /\ startVersion = devVersion
    /\ upTable = upgrade_path_regex
    /\ downTable = downgrade_path_regex
    /\ InitRest

(* ---------------- the device API ---------------------------------------- *)
\* get_element_sw_version (lines 138-142): the version the device reports,
\* None when the call fails.  With element_id False (serial not found) what
\* the API returns is not determined by the script: either outcome.
get_element_sw_version(ok) == IF ok THEN devVersion ELSE None

\* get_images_list (lines 145-154)
get_images_list(ok) == IF ok THEN catalog ELSE NoDict

(* ---------------- decisions of the script ------------------------------- *)
\* is_upgrade_or_downgrade, lines 293-316, on the values read at 291-292:
\* the exception that ends it (exc) or the value it returns (action).
is_upgrade_or_downgrade(dict, current, target) ==
    IF dict = NoDict
    THEN [exc |-> "AttributeError", action |-> "None"]
    ELSE IF target = None /\ Len(dict) = 0
    THEN [exc |-> "ValueError", action |-> "None"]
    ELSE LET target_version == IF target = None THEN MaxKey(dict) ELSE target
             exact_target_version == get_exact_major_minor_micro(target_version, dict)
         IN  IF exact_target_version = None \/ current = None
             THEN [exc |-> "TypeError", action |-> "None"]
             ELSE IF NoVersionIn(exact_target_version) \/ NoVersionIn(current)
             THEN [exc |-> "AttributeError", action |-> "None"]
             ELSE [exc |-> "none",
                   action |-> CompareVersions(current, exact_target_version)]

\* Mutant: the check of line 335 (serial not found) is dropped.
GoProceeds_noSerialCheck(act, cli, elem) ==
    /\ act # "None"
    /\ ~(cli # "auto" /\ cli # act)

\* go, lines 327-336: the decided action is carried out.
GoProceeds(act, cli, elem) ==
    /\ act # "None"
    /\ ~(cli # "auto" /\ cli # act)
    /\ elem # "False"

\* Mutant: two more steps are let through.
LimitReached_twoMore(s, budget) == s > budget + 2

\* Mutant: the budget is compared off by one.
LimitReached_offByOne(s, budget) == s > budget + 1

\* Lines 198 / 239
LimitReached(s, budget) == s > budget

\* Mutant: the current version is compared with the specifier only.
AtMaxVersion_specifierOnly(current, maxv, exact_maxv) == current = maxv

\* Lines 207 / 248
AtMaxVersion(current, maxv, exact_maxv) ==
    current = maxv \/ current = exact_maxv

\* Lines 223 / 264
HopUsable(version, id) == version # None /\ id # ""

\* Mutant: the loop runs once more, with no wait time left.
WaitLoopCond_oneMore(current, target, left) == current # target /\ left >= 0

\* Mutant: the loop stops at a failed read.
WaitLoopCond_stopOnFailedRead(current, target, left) ==
    current # target /\ current # None /\ left > 0

\* Line 177: the wait goes on.
WaitLoopCond(current, target, left) == current # target /\ left > 0

\* Mutant: the check after the loop is left out.
WaitReached_unchecked(current, target) == TRUE

\* Lines 182-186: what wait_for_upgade returns.
WaitReached(current, target) == ~(current # target)

\* Mutant: the record written is built anew around the image reference.
SetImage_freshRecord(state, image_id) ==
    [image_id |-> image_id, scheduled_upgrade |-> "now", interval |-> state.interval]

\* Line 163: the image reference of the record that was read is set; the
\* other fields stay as read.
SetImage(state, image_id) == [state EXCEPT !.image_id = image_id]

\* Mutant: each engine walks the other direction's table.
TableOf_swapped(act) == IF act = "upgrade" THEN downTable ELSE upTable

\* The path table of the engine that runs.
TableOf(act) == IF act = "upgrade" THEN upTable ELSE downTable

(* ---------------- returning and raising --------------------------------- *)
\* The frame of staged_upgrade / staged_downgrade whose step is s returns
\* value.  The caller of step 1 is go, which then falls off its end; the
\* caller of a deeper step is the frame above, at line 233 / 274.
FrameReturn(s, value) ==
    /\ step' = s - 1
    /\ pc' = IF s = 1 THEN "logout" ELSE "post_call"
    /\ topRet' = IF s = 1 THEN value ELSE topRet
    /\ goRet' = IF s = 1 THEN "None" ELSE goRet

\* The engine's run ends as oc (the first terminal event of the run).
Ends(oc) == outcome' = IF outcome = "RUNNING" THEN oc ELSE outcome

\* An exception nobody catches: the process ends with a traceback.
Raise(e) == pc' = "crashed" /\ exc' = e /\ Ends("UNCAUGHT")

\* What an action records of the API call it makes: whether the call
\* succeeded, and whether any call other than a poll of the wait failed.
Called(name, ok) ==
    last' = name /\ last_ok' = ok /\ callFailed' = (callFailed \/ ~ok)

Polled(name, ok) == last' = name /\ last_ok' = ok /\ UNCHANGED callFailed

NoCall(name) == last' = name /\ last_ok' = TRUE /\ UNCHANGED callFailed

(* ---------------- go and the decider ------------------------------------ *)
\* find_ion_by_sn, lines 278-288, called at line 325.  It returns False both
\* when the listing fails and when no element has the serial: ~found.
FindIon ==
    /\ pc = "find_ion"
    /\ \E found \in BOOLEAN :
         element_id' = IF found THEN "elem" ELSE "False"
    /\ NoCall("FindIon")
    /\ pc' = "decide_images"
    /\ UNCHANGED <<reqVars, cliVars, envVars, histVars, action, step, image_dict,
                   current_version, max_version, exact_max_version,
                   upgrade_version, upgrade_image_id, software_state_data,
                   w_version, w_left, w_ret, topRet, goRet, exc>>

\* Line 291
DecideGetImages ==
    /\ pc = "decide_images"
    /\ \E ok \in BOOLEAN :
         /\ image_dict' = get_images_list(ok)
         /\ Called("DecideGetImages", ok)
    /\ pc' = "decide_version"
    /\ UNCHANGED <<reqVars, cliVars, envVars, histVars, element_id, action, step,
                   current_version, max_version, exact_max_version,
                   upgrade_version, upgrade_image_id, software_state_data,
                   w_version, w_left, w_ret, topRet, goRet, exc>>

\* Line 292
DecideGetVersion ==
    /\ pc = "decide_version"
    /\ \E ok \in BOOLEAN :
         /\ current_version' = get_element_sw_version(ok)
         /\ Called("DecideGetVersion", ok)
    /\ pc' = "decide"
    /\ UNCHANGED <<reqVars, cliVars, envVars, histVars, element_id, action, step,
                   image_dict, max_version, exact_max_version,
                   upgrade_version, upgrade_image_id, software_state_data,
                   w_version, w_left, w_ret, topRet, goRet, exc>>

\* Lines 293-316, the assignment of line 326
Decide ==
    /\ pc = "decide"
    /\ LET r == is_upgrade_or_downgrade(image_dict, current_version, version_target)
       IN  IF r.exc # "none"
           THEN /\ Raise(r.exc)
                /\ UNCHANGED action
           ELSE /\ action' = r.action
                /\ pc' = "go_check"
                /\ UNCHANGED <<exc, outcome>>
    /\ NoCall("Decide")
    /\ UNCHANGED <<reqVars, cliVars, envVars, nreq, hopSpec, w_reads, w_sleeps, w_failed_at,
                   logouts, startVersion, element_id, step, image_dict, current_version,
                   max_version, exact_max_version, upgrade_version,
                   upgrade_image_id, software_state_data, w_version, w_left,
                   w_ret, topRet, goRet>>

\* Lines 327-343: go returns False, or calls the engine of the action.
GoCheck ==
    /\ pc = "go_check"
    /\ IF GoProceeds(action, cli_action, element_id)
       THEN /\ pc' = "step_entry"
            /\ step' = 0
            /\ max_version' = version_target
            /\ UNCHANGED goRet
       ELSE /\ pc' = "logout"
            /\ goRet' = "False"
            /\ UNCHANGED <<step, max_version>>
    /\ NoCall("GoCheck")
    /\ UNCHANGED <<reqVars, cliVars, envVars, histVars, element_id, action, image_dict,
                   current_version, exact_max_version, upgrade_version,
                   upgrade_image_id, software_state_data, w_version, w_left,
                   w_ret, topRet, exc>>

(* ---------------- the staged engine ------------------------------------- *)
\* staged_upgrade and staged_downgrade are the same code but for the table
\* (TableOf) and the default target (max / min); `action` tells which runs.

\* Lines 197-200 / 238-241.  A frame that goes on starts with its own
\* locals unset; the locals of the calls that returned are gone.
StepEntry ==
    /\ pc = "step_entry"
    /\ IF LimitReached(step + 1, max_steps)
       THEN /\ FrameReturn(step + 1, "False")
            /\ Ends("LIMIT_REACHED")
            /\ UNCHANGED <<image_dict, current_version, exact_max_version,
                           upgrade_version, upgrade_image_id,
                           software_state_data, w_version, w_left, w_ret,
                           hopSpec, w_reads, w_sleeps, w_failed_at>>
       ELSE /\ step' = step + 1
            /\ pc' = "step_images"
            /\ image_dict' = NoDict
            /\ current_version' = None
            /\ exact_max_version' = None
            /\ upgrade_version' = None
            /\ upgrade_image_id' = ""
            /\ software_state_data' = InitialState
            /\ w_version' = None
            /\ w_left' = 0
            /\ w_ret' = "unset"
            /\ hopSpec' = None
            /\ w_reads' = 0
            /\ w_sleeps' = 0
            /\ w_failed_at' = 0
            /\ UNCHANGED <<topRet, goRet, outcome>>
    /\ NoCall("StepEntry")
    /\ UNCHANGED <<reqVars, cliVars, envVars, nreq, logouts, startVersion, element_id, action,
                   max_version, exc>>

\* Line 201 / 242
StepGetImages ==
    /\ pc = "step_images"
    /\ \E ok \in BOOLEAN :
         /\ image_dict' = get_images_list(ok)
         /\ Called("StepGetImages", ok)
    /\ pc' = "step_version"
    /\ UNCHANGED <<reqVars, cliVars, envVars, histVars, element_id, action, step,
                   current_version, max_version, exact_max_version,
                   upgrade_version, upgrade_image_id, software_state_data,
                   w_version, w_left, w_ret, topRet, goRet, exc>>

\* Line 202 / 243
StepGetVersion ==
    /\ pc = "step_version"
    /\ \E ok \in BOOLEAN :
         /\ current_version' = get_element_sw_version(ok)
         /\ Called("StepGetVersion", ok)
    /\ pc' = "step_resolve"
    /\ UNCHANGED <<reqVars, cliVars, envVars, histVars, element_id, action, step,
                   image_dict, max_version, exact_max_version,
                   upgrade_version, upgrade_image_id, software_state_data,
                   w_version, w_left, w_ret, topRet, goRet, exc>>

\* Lines 203-215 / 244-256
StepResolve ==
    /\ pc = "step_resolve"
    /\ IF image_dict = NoDict
       THEN /\ Raise("AttributeError")
            /\ UNCHANGED <<step, topRet, goRet, max_version, exact_max_version>>
       ELSE IF max_version = None /\ Len(image_dict) = 0
       THEN /\ Raise("ValueError")
            /\ UNCHANGED <<step, topRet, goRet, max_version, exact_max_version>>
       ELSE LET mv  == IF max_version # None THEN max_version
                       ELSE IF action = "upgrade" THEN MaxKey(image_dict)
                       ELSE MinKey(image_dict)
                emv == get_exact_major_minor_micro(mv, image_dict)
            IN  /\ max_version' = mv
                /\ exact_max_version' = emv
                /\ UNCHANGED exc
                /\ IF AtMaxVersion(current_version, mv, emv)
                   THEN FrameReturn(step, "False") /\ Ends("DONE")
                   ELSE IF LastKeyContaining(mv, image_dict) = None
                   THEN FrameReturn(step, "False") /\ Ends("STEP_FAILED")
                   ELSE /\ pc' = "step_path"
                        /\ UNCHANGED <<step, topRet, goRet, outcome>>
    /\ NoCall("StepResolve")
    /\ UNCHANGED <<reqVars, cliVars, envVars, nreq, hopSpec, w_reads, w_sleeps, w_failed_at,
                   logouts, startVersion, element_id, action, image_dict, current_version,
                   upgrade_version, upgrade_image_id, software_state_data,
                   w_version, w_left, w_ret>>

\* Lines 217-225, 230-232 / 258-266, 271-273: the hop is looked up and, when
\* usable, execute_upgrade is called.
StepPath ==
    /\ pc = "step_path"
    /\ IF current_version = None /\ Len(TableOf(action)) > 0
       THEN /\ Raise("TypeError")
            /\ UNCHANGED <<step, topRet, goRet, upgrade_version,
                           upgrade_image_id, hopSpec, nreq, reqAt, prevReqAt>>
       ELSE LET h == NextHop(TableOf(action), current_version, image_dict)
            IN  /\ hopSpec' = h.spec
                /\ upgrade_version' = h.version
                /\ upgrade_image_id' = h.id
                /\ IF h.raised
                   THEN /\ Raise("KeyError")
                        /\ UNCHANGED <<step, topRet, goRet, nreq, reqAt,
                                       prevReqAt>>
                   ELSE IF HopUsable(h.version, h.id)
                   THEN /\ pc' = "exec_get"
                        /\ nreq' = nreq + 1
                        /\ reqAt' = current_version
                        /\ prevReqAt' = reqAt
                        /\ UNCHANGED <<step, topRet, goRet, exc, outcome>>
                   ELSE /\ FrameReturn(step, "False")
                        /\ Ends("STEP_FAILED")
                        /\ UNCHANGED <<exc, nreq, reqAt, prevReqAt>>
    /\ NoCall("StepPath")
    /\ UNCHANGED <<sw_reads, sw_writes, cliVars, envVars, w_reads, w_sleeps, w_failed_at, logouts, startVersion,
                   element_id, action, image_dict, current_version, max_version,
                   exact_max_version, software_state_data, w_version, w_left,
                   w_ret>>

\* execute_upgrade, lines 158-163: the software state is read and the image
\* reference set in the copy.
ExecGet ==
    /\ pc = "exec_get"
    /\ \E ok \in BOOLEAN :
         /\ Called("ExecGet", ok)
         /\ IF ok
            THEN /\ software_state_data' = SetImage(devState, upgrade_image_id)
                 /\ pc' = "exec_put"
                 /\ UNCHANGED <<step, topRet, goRet, outcome>>
            ELSE /\ FrameReturn(step, "False")
                 /\ Ends("STEP_FAILED")
                 /\ UNCHANGED software_state_data
    /\ sw_reads' = sw_reads + 1
    /\ UNCHANGED <<sw_writes, reqAt, prevReqAt, cliVars, envVars, nreq, hopSpec, w_reads, w_sleeps, w_failed_at,
                   logouts, startVersion, element_id, action, image_dict, current_version,
                   max_version, exact_max_version, upgrade_version,
                   upgrade_image_id, w_version, w_left, w_ret, exc>>

\* execute_upgrade, lines 164-169: the record is written back; the device
\* starts installing the image it names.
ExecPut ==
    /\ pc = "exec_put"
    /\ \E ok \in BOOLEAN :
         /\ Called("ExecPut", ok)
         /\ IF ok
            THEN /\ devState' = software_state_data
                 /\ installing' = software_state_data.image_id
                 /\ pc' = "wait_first"
                 /\ UNCHANGED <<step, topRet, goRet, outcome>>
            ELSE /\ FrameReturn(step, "False")
                 /\ Ends("STEP_FAILED")
                 /\ UNCHANGED <<devState, installing>>
    /\ sw_writes' = sw_writes + 1
    /\ UNCHANGED <<sw_reads, reqAt, prevReqAt, cliVars, catalog, devVersion, drifts, catChanges, nreq,
                   hopSpec, w_reads, w_sleeps, w_failed_at, logouts, startVersion, element_id,
                   action, image_dict, current_version, max_version,
                   exact_max_version, upgrade_version, upgrade_image_id,
                   software_state_data, w_version, w_left, w_ret, exc>>

\* wait_for_upgade, lines 173-176: the first read
WaitFirstRead ==
    /\ pc = "wait_first"
    /\ \E ok \in BOOLEAN :
         /\ w_version' = get_element_sw_version(ok)
         /\ w_failed_at' = IF ok THEN 0 ELSE 1
         /\ Polled("WaitFirstRead", ok)
    /\ w_left' = max_wait
    /\ w_ret' = "unset"
    /\ w_reads' = 1
    /\ w_sleeps' = 0
    /\ pc' = "wait_loop"
    /\ UNCHANGED <<reqVars, cliVars, envVars, outcome, nreq, hopSpec, logouts, startVersion, element_id,
                   action, step, image_dict, current_version, max_version,
                   exact_max_version, upgrade_version, upgrade_image_id,
                   software_state_data, topRet, goRet, exc>>

\* wait_for_upgade, lines 177-181: one turn of the loop
WaitSleep ==
    /\ pc = "wait_loop"
    /\ WaitLoopCond(w_version, upgrade_version, w_left)
    /\ w_left' = w_left - SleepInterval
    /\ \E ok \in BOOLEAN :
         /\ w_version' = get_element_sw_version(ok)
         /\ w_failed_at' = IF ok \/ w_failed_at # 0 THEN w_failed_at
                            ELSE w_reads + 1
         /\ Polled("WaitSleep", ok)
    /\ w_reads' = w_reads + 1
    /\ w_sleeps' = w_sleeps + 1
    /\ UNCHANGED <<reqVars, cliVars, envVars, outcome, nreq, hopSpec, logouts, startVersion, pc,
                   element_id, action, step, image_dict, current_version,
                   max_version, exact_max_version, upgrade_version,
                   upgrade_image_id, software_state_data, w_ret, topRet, goRet,
                   exc>>

\* wait_for_upgade, lines 182-186, and its caller, lines 227-229 / 268-270:
\* on True the engine calls itself, on False it returns False.
WaitReturn ==
    /\ pc = "wait_loop"
    /\ ~WaitLoopCond(w_version, upgrade_version, w_left)
    /\ IF WaitReached(w_version, upgrade_version)
       THEN /\ w_ret' = "True"
            /\ pc' = "step_entry"
            /\ UNCHANGED <<step, topRet, goRet, outcome>>
       ELSE /\ w_ret' = "False"
            /\ FrameReturn(step, "False")
            /\ Ends("STEP_FAILED")
    /\ NoCall("WaitReturn")
    /\ UNCHANGED <<reqVars, cliVars, envVars, nreq, hopSpec, w_reads, w_sleeps, w_failed_at,
                   logouts, startVersion, element_id, action, image_dict, current_version,
                   max_version, exact_max_version, upgrade_version,
                   upgrade_image_id, software_state_data, w_version, w_left, exc>>

\* Lines 233-234 / 274-275: after the inner call returned (its value is
\* dropped) the version is read and the frame returns None.
PostCall ==
    /\ pc = "post_call"
    /\ \E ok \in BOOLEAN :
         /\ current_version' = get_element_sw_version(ok)
         /\ Called("PostCall", ok)
    /\ FrameReturn(step, "None")
    /\ UNCHANGED <<reqVars, cliVars, envVars, histVars, element_id, action, image_dict,
                   max_version, exact_max_version, upgrade_version,
                   upgrade_image_id, software_state_data, w_version, w_left,
                   w_ret, exc>>

\* Lines 345-347, called at line 353 once go has returned
Logout ==
    /\ pc = "logout"
    /\ logouts' = logouts + 1
    /\ pc' = "exit"
    /\ Called("Logout", TRUE)
    /\ UNCHANGED <<reqVars, cliVars, envVars, locVars, outcome, nreq, hopSpec, w_reads,
                   w_sleeps, w_failed_at, startVersion>>

(* ---------------- the remote side --------------------------------------- *)
\* The script sees the device's version only when it reads it, and the
\* repository only when it lists it: a change of the remote side anywhere
\* between two reads is a change right before the later one.
AboutToReadVersion ==
    pc \in {"decide_version", "step_version", "wait_first", "wait_loop", "post_call"}

\* A change before the script's first read or first listing is another
\* initial state, and one after the run's end is decided changes nothing
\* the engine does: the unrequested changes are placed inside the run.
DriftPoint == pc \in {"step_version", "wait_first", "wait_loop"}

ListPoint == pc = "step_images"

\* The versions a device can come to report without being asked.
DriftVersions == {V_5_0_3_b9, V_5_4_1}

\* The device finishes installing the image its software state names.
DeviceInstall ==
    /\ AboutToReadVersion
    /\ installing # ""
    /\ devVersion' = VersionOfId(installing)
    /\ installing' = ""
    /\ UNCHANGED <<reqVars, cliVars, catalog, devState, drifts, catChanges, pc, locVars,
                   apiVars, histVars>>

\* The device comes to report another version without the script asking
\* (a rollback, a change made by somebody else).
DeviceDrift ==
    /\ DriftPoint
    /\ drifts + catChanges < MaxRemoteChanges
    /\ \E v \in DriftVersions \ {devVersion} : devVersion' = v
    /\ drifts' = drifts + 1
    /\ UNCHANGED <<reqVars, cliVars, catalog, devState, installing, catChanges, pc,
                   locVars, apiVars, histVars>>

\* The image repository changes between two listings.
CatalogChange ==
    /\ ListPoint
    /\ drifts + catChanges < MaxRemoteChanges
    /\ \E c \in Catalogs \ {catalog} : catalog' = c
    /\ catChanges' = catChanges + 1
    /\ UNCHANGED <<reqVars, cliVars, devVersion, devState, installing, drifts, pc,
                   locVars, apiVars, histVars>>

Next ==
    \/ FindIon \/ DecideGetImages \/ DecideGetVersion \/ Decide \/ GoCheck
    \/ StepEntry \/ StepGetImages \/ StepGetVersion \/ StepResolve \/ StepPath
    \/ ExecGet \/ ExecPut \/ WaitFirstRead \/ WaitSleep \/ WaitReturn
    \/ PostCall \/ Logout
    \/ DeviceInstall \/ DeviceDrift \/ CatalogChange

Spec == Init /\ [][Next]_vars

(* ---------------- the engine on synthetic path tables ------------------- *)
\* The table of the nextHop example, and tables whose patterns overlap.
UpExample   == << [pattern |-> P_4_5, hop |-> V_4_7_1],
                  [pattern |-> P_4_7, hop |-> V_5_0_3] >>
UpOverlap   == << [pattern |-> P_4,   hop |-> V_4_7_1],
                  [pattern |-> P_4_5, hop |-> V_5_0_3] >>
DownOverlap == << [pattern |-> P_5,   hop |-> V_5_0_3],
                  [pattern |-> P_5_4, hop |-> V_5_2_7] >>

InitHop ==
    /\ upTable \in {upgrade_path_regex, UpExample, UpOverlap}
    /\ downTable \in {downgrade_path_regex, DownOverlap}
    /\ cli_action = "auto"
    /\ max_steps = 2
    /\ max_wait = SleepInterval
    /\ version_target = V_5_2_7
    /\ catalog = CatFull
    /\ devVersion \in {V_4_5_2, V_4_5_9, V_5_4_1}
    /\ startVersion = devVersion
    /\ InitRest

SpecHop == InitHop /\ [][Next]_vars

(* ======================= the claims ===================================== *)
\* The positions from which the script makes no further change request:
\* the frames are returning, go has returned, or the process has ended.
Unwinding == pc \in {"post_call", "logout", "exit", "crashed"}

\* C1. Step budget: a run never makes more than max_steps calls of
\* execute_upgrade; a run that ends in LIMIT_REACHED has made exactly
\* max_steps of them, and a frame entered after max_steps calls ends the run
\* in LIMIT_REACHED instead of making another.
C1_StepBudget ==
    /\ nreq <= max_steps
    /\ outcome = "LIMIT_REACHED" => nreq = max_steps
    /\ (last = "StepEntry" /\ nreq = max_steps) => outcome = "LIMIT_REACHED"

\* Two of three needed hops were made under max_steps = 2 (4.5.9 to 4.7.1 to
\* 5.0.3, target 5.2.7) and the run ended in LIMIT_REACHED.
C1_Witness ==
    /\ max_steps = 2 /\ nreq = 2 /\ outcome = "LIMIT_REACHED" /\ pc = "exit"
    /\ startVersion = V_4_5_9 /\ version_target = V_5_2_7
    /\ devVersion = V_5_0_3 /\ drifts = 0 /\ catChanges = 0 /\ ~callFailed

\* A step of the run has just failed: the change request was rejected by
\* the read or the write, the wait ended without the expected version, the
\* target is in no key of the snapshot, or the path gave no usable hop.
StepFailedNow ==
    \/ last \in {"ExecGet", "ExecPut"} /\ ~last_ok
    \/ last = "WaitReturn" /\ w_version # upgrade_version
    \/ /\ last = "StepResolve" /\ exc = "none"
       /\ \A k \in 1..Len(image_dict) : ~StrIn(max_version, image_dict[k].version)
    \/ last = "StepPath" /\ (upgrade_version = None \/ upgrade_image_id = "")

\* C2. Failure halts the run: right after a step failed the engine is
\* returning; from then on it stays so and makes no change request; and a
\* wait that timed out ends the run in STEP_FAILED.
C2_FailureHalts ==
    /\ [](StepFailedNow => Unwinding)
    /\ [](w_ret = "False" => outcome = "STEP_FAILED" /\ Unwinding)
    /\ [][Unwinding => (Unwinding' /\ nreq' = nreq)]_vars

\* A wait timed out after a change request and the process ended.
C2_Witness ==
    /\ w_ret = "False" /\ pc = "exit" /\ nreq = 1 /\ w_sleeps >= 1
    /\ w_version # None

\* The direction by the order of the (major, minor, micro) tuples.
RefDirection(current, target) ==
    IF TupleLess(major_minor_micro(current), major_minor_micro(target))
    THEN "upgrade"
    ELSE IF TupleLess(major_minor_micro(target), major_minor_micro(current))
    THEN "downgrade"
    ELSE "None"

\* The target the decider resolved from the values it read.
DecidedTarget ==
    get_exact_major_minor_micro(
        IF version_target = None THEN MaxKey(image_dict) ELSE version_target,
        image_dict)

\* C3. Direction Decider: whenever the decider returns, its result is the
\* order of the current and the resolved target version by major, then
\* minor, then micro, and None only when all three are equal.
C3_DeciderByMajorMinorMicro ==
    (last = "Decide" /\ exc = "none") =>
        action = RefDirection(current_version, DecidedTarget)

\* C4. Precondition of any change: a change request has been made only if
\* the serial was found, the decider returned a direction, and the caller's
\* action is auto or that direction; otherwise go returns False.
C4_ChangePrecondition ==
    /\ nreq > 0 =>
         /\ element_id = "elem"
         /\ action \in {"upgrade", "downgrade"}
         /\ cli_action \in {"auto", action}
    /\ (last = "GoCheck" /\ (element_id = "False" \/ action = "None"
                              \/ cli_action \notin {"auto", action})) =>
         (goRet = "False" /\ pc = "logout" /\ nreq = 0)

\* A change request was made under an explicit action.
C4_Witness == nreq > 0 /\ cli_action = "downgrade" /\ pc = "exit"

\* The end-to-end scenario: shipped table, device first at 5.0.3, target
\* 5.2.7 in some key of the catalog, max_steps = 5, the upgrade engine run,
\* no API call failed, no wait timed out, nothing changed unrequested.
C5_Scenario ==
    /\ upTable = upgrade_path_regex
    /\ startVersion = V_5_0_3
    /\ version_target = V_5_2_7
    /\ max_steps = DefaultMaxSteps
    /\ element_id = "elem"
    /\ cli_action \in {"auto", "upgrade"}
    /\ \E k \in 1..Len(catalog) : StrIn(V_5_2_7, catalog[k].version)
    /\ ~callFailed /\ w_ret # "False"
    /\ drifts = 0 /\ catChanges = 0

\* C5. In the end-to-end scenario the engine makes one change request, for
\* the 5.2.7 hop, ends in DONE, and the device then reports a version that
\* contains 5.2.7.
C5_EndToEnd ==
    C5_Scenario =>
        /\ nreq <= 1
        /\ devState.image_id # "" =>
             StrIn(V_5_2_7, VersionOfId(devState.image_id))
        /\ pc \in {"logout", "exit"} =>
             /\ nreq = 1
             /\ outcome = "DONE"
             /\ StrIn(V_5_2_7, devVersion)

C5_Witness ==
    C5_Scenario /\ pc = "exit" /\ nreq = 1 /\ outcome = "DONE" /\ max_wait > 0

\* C6. awaitVersion: one read before the first sleep and one after each
\* sleep of 10 seconds; a sleep only after a read that is not the expected
\* version and while the elapsed wait is below max_wait_seconds; the wait
\* returns only on a matching read or with the elapsed wait at or above
\* max_wait_seconds, and returns True exactly when the last read is equal,
\* as a string, to the expected version.
C6_AwaitVersion ==
    /\ [](pc = "wait_loop" \/ last = "WaitReturn" =>
            /\ w_reads = w_sleeps + 1
            /\ w_left = max_wait - SleepInterval * w_sleeps)
    /\ [](last = "WaitReturn" =>
            /\ w_version = upgrade_version \/ SleepInterval * w_sleeps >= max_wait
            /\ w_ret = "True" <=> w_version = upgrade_version)
    /\ [][w_sleeps' = w_sleeps + 1 =>
            /\ w_version # upgrade_version
            /\ SleepInterval * w_sleeps < max_wait]_vars

\* A wait that slept twice and then read the expected version.
C6_Witness ==
    last = "WaitReturn" /\ w_ret = "True" /\ w_sleeps = 2 /\ max_wait = 15

\* C7. Distinct terminal outcomes: the value the top-level call of the
\* engine returns is False exactly for the runs that ended in STEP_FAILED
\* (the value the code returns for a failed step), so that LIMIT_REACHED and
\* DONE are told from a failure.
C7_OutcomesToldApart ==
    topRet # "unset" => (topRet = "False" <=> outcome = "STEP_FAILED")

\* The first entry of the table, in order, whose pattern matches: its index,
\* 0 when none matches.
FirstMatch(table, current) ==
    LET hits == {i \in 1..Len(table) : ReMatch(table[i].pattern, current)}
    IN  IF hits = {} THEN 0 ELSE MinOf(hits)

\* No entry matches the current version, or the first that does names a hop
\* that no key of the snapshot contains.
NoNextHop(table, current, dict) ==
    LET i == FirstMatch(table, current)
    IN  i = 0 \/ get_exact_major_minor_micro(table[i].hop, dict) = None

\* C8. Unresolvable hop is a step failure: when the path lookup of a step
\* finds no next hop, the step ends in STEP_FAILED: the engine returns, no
\* change request is made and no exception escapes.
C8_NoHopIsStepFailed ==
    (/\ last = "StepPath" /\ current_version # None
     /\ NoNextHop(TableOf(action), current_version, image_dict)) =>
        (pc # "crashed" /\ outcome = "STEP_FAILED" /\ Unwinding)

\* C9. nextHop: the hop specifier a step uses is that of the first entry of
\* the direction's table whose pattern matches the current version, and
\* none when no entry matches.
C9_FirstMatchWins ==
    (last = "StepPath" /\ current_version # None) =>
        LET i == FirstMatch(TableOf(action), current_version)
        IN  hopSpec = IF i = 0 THEN None ELSE TableOf(action)[i].hop

\* C10 as stated. A failed read ends the wait at once: the failed read is
\* the last read of its wait, and the wait does not return True.
C10_FailedReadEndsWait ==
    (w_failed_at # 0 /\ (pc = "wait_loop" \/ last = "WaitReturn")) =>
        (w_reads = w_failed_at /\ w_ret # "True")

\* C10 amended. A failed read counts as a read that does not match: the
\* wait ends on it only with the elapsed wait at or above max_wait_seconds,
\* and then returns False, which fails the step.
C10_FailedReadIsMismatch ==
    (last = "WaitReturn" /\ w_version = None) =>
        /\ SleepInterval * w_sleeps >= max_wait
        /\ w_ret = "False"
        /\ outcome = "STEP_FAILED"

\* A wait that slept, then ended on a failed read.
C10_Witness ==
    last = "WaitReturn" /\ w_version = None /\ w_sleeps >= 1 /\ w_failed_at = w_reads

\* C11. Session release: once the process has ended, on whatever path, the
\* session has been released by exactly one logout; there is never more than
\* one logout, and after the logout no device API call is made.
C11_SessionReleased ==
    /\ pc \in {"exit", "crashed"} => logouts = 1
    /\ logouts <= 1
    /\ logouts = 1 => (last = "Logout" /\ pc = "exit")

\* C12. applyChange (execute_upgrade): an invocation reads the software state
\* once and writes it at most once, the write after a successful read only;
\* the copy that is written is the record read with only image_id set, to
\* the requested image id; a failed read or a failed write leaves the
\* device's record as it was and fails the step, and neither is tried again.
C12_ApplyChangeFrame ==
    /\ [](/\ sw_reads <= nreq /\ sw_writes <= sw_reads
          /\ pc # "exec_get" => sw_reads = nreq
          /\ pc = "exec_put" => sw_writes = sw_reads - 1
          /\ (last \in {"ExecGet", "ExecPut"} /\ ~last_ok) =>
                (Unwinding /\ outcome = "STEP_FAILED"))
    /\ [][sw_reads' # sw_reads =>
            /\ pc = "exec_get" /\ sw_reads' = sw_reads + 1
            /\ sw_writes' = sw_writes /\ devState' = devState
            /\ IF last_ok'
               THEN /\ pc' = "exec_put"
                    /\ software_state_data'.image_id = upgrade_image_id
                    /\ \A f \in (DOMAIN devState) \ {"image_id"} :
                          software_state_data'[f] = devState[f]
               ELSE pc' # "exec_put"]_vars
    /\ [][sw_writes' # sw_writes =>
            /\ pc = "exec_put" /\ sw_writes' = sw_writes + 1
            /\ sw_reads' = sw_reads /\ pc' # "exec_put"
            /\ IF last_ok'
               THEN /\ devState' = software_state_data
                    /\ devState'.image_id = upgrade_image_id
                    /\ \A f \in (DOMAIN devState) \ {"image_id"} :
                          devState'[f] = devState[f]
               ELSE devState' = devState]_vars
    /\ [][devState' # devState => sw_writes' # sw_writes]_vars

\* The second change request of a run was written: the record read named
\* the image of the first request.
C12_Witness ==
    /\ last = "ExecPut" /\ last_ok /\ sw_writes = 2 /\ sw_reads = 2
    /\ devState.image_id = upgrade_image_id
    /\ devState.scheduled_upgrade = InitialState.scheduled_upgrade

(* ---------------- the engine on more specifiers and catalogs ------------ *)
\* Specifiers that are a key, the head of a key, the inside of a key, the
\* tail of a key, and in no key; catalogs in several iteration orders.
S_2_7 == <<"2", ".", "7">>
S_b22 == <<"-", "b", "2", "2">>
S_5_2 == <<"5", ".", "2">>

CatInstance == <<Img(4), Img(1)>>
CatB22Last  == <<Img(1), Img(5), Img(4)>>
CatWith51   == <<Img(3), Img(7), Img(4), Img(6)>>

ResolveSpecifiers ==
    {V_5_2_7, V_5_2_7_b22, S_2_7, S_b22, S_5_2, V_4_5_3, V_5_1_5, V_9_9_9}
ResolveCatalogs   == {CatInstance, CatTwoBuild, CatB22Last, CatFull, CatWith51}

InitResolve ==
    /\ upTable = upgrade_path_regex
    /\ downTable = downgrade_path_regex
    /\ cli_action = "auto"
    /\ max_steps = 1
    /\ max_wait = SleepInterval
    /\ version_target \in ResolveSpecifiers
    /\ catalog \in ResolveCatalogs
    /\ devVersion \in {V_4_7_1, V_5_0_3, V_5_4_1}
    /\ startVersion = devVersion
    /\ InitRest

SpecResolve == InitResolve /\ [][Next]_vars

\* r is the first key of dict, in iteration order, that contains specifier
\* as a substring, and None when no key contains it.
IsFirstKeyContaining(r, specifier, dict) ==
    IF \A k \in 1..Len(dict) : ~StrIn(specifier, dict[k].version)
    THEN r = None
    ELSE \E k \in 1..Len(dict) :
            /\ r = dict[k].version
            /\ StrIn(specifier, dict[k].version)
            /\ \A j \in 1..(k - 1) : ~StrIn(specifier, dict[j].version)

\* C13. resolveExact: for the caller's specifier and the repository's
\* catalog, and for the specifier and the snapshot of every step that
\* resolved its target, the result is the first key in iteration order that
\* contains the specifier, None exactly when no key does; "5.2.7" against
\* the keys 5.2.7-b22, 4.5.3 gives 5.2.7-b22.
C13_ResolveExact ==
    /\ IsFirstKeyContaining(get_exact_major_minor_micro(version_target, catalog),
                            version_target, catalog)
    /\ (last = "StepResolve" /\ exc = "none") =>
          IsFirstKeyContaining(exact_max_version, max_version, image_dict)
    /\ get_exact_major_minor_micro(V_5_2_7, CatInstance) = V_5_2_7_b22

\* A step resolved a specifier that two keys contain, neither as its head.
C13_Witness ==
    /\ last = "StepResolve" /\ exc = "none"
    /\ max_version = S_2_7 /\ image_dict = CatTwoBuild
    /\ exact_max_version = V_5_2_7_b30

(* ---------------- the decider on pairs of versions ---------------------- *)
\* The version strings major.minor.micro over a small set of components,
\* one of them of two digits.
Components == {0, 9, 10}

TripleVersions ==
    {StrOfInt(a) \o <<".">> \o StrOfInt(b) \o <<".">> \o StrOfInt(c) :
        a \in Components, b \in Components, c \in Components}

\* go up to the engine's call, with no target given, a repository of one
\* image and a device, each at any of the versions: the decider compares
\* every pair.
InitCompare ==
    /\ upTable = upgrade_path_regex
    /\ downTable = downgrade_path_regex
    /\ cli_action \in CliActions
    /\ max_steps = DefaultMaxSteps
    /\ max_wait = SleepInterval
    /\ version_target = None
    /\ \E b \in TripleVersions : catalog = << [version |-> b, id |-> ImageIds[1]] >>
    /\ devVersion \in TripleVersions
    /\ startVersion = devVersion
    /\ InitRest

NextCompare ==
    FindIon \/ DecideGetImages \/ DecideGetVersion \/ Decide \/ GoCheck

SpecCompare == InitCompare /\ [][NextCompare]_vars

AntisymmetricOn(a, b) ==
    /\ CompareVersions(a, b) = "upgrade" <=> CompareVersions(b, a) = "downgrade"
    /\ CompareVersions(a, b) = "downgrade" <=> CompareVersions(b, a) = "upgrade"
    /\ CompareVersions(a, a) = "None"
    /\ CompareVersions(b, b) = "None"

\* C14. Comparison antisymmetry: for the current version a and the resolved
\* target b of every decision the decider makes, the decider's comparison
\* says upgrade for (a, b) exactly when it says downgrade for (b, a), and
\* says None for (a, a).
C14_Antisymmetry ==
    (last = "Decide" /\ exc = "none") =>
        /\ action = CompareVersions(current_version, DecidedTarget)
        /\ AntisymmetricOn(current_version, DecidedTarget)

\* The decider said downgrade for a pair with a two-digit component, and
\* says upgrade for the swapped pair.
C14_Witness ==
    /\ last = "Decide" /\ exc = "none" /\ action = "downgrade"
    /\ major_minor_micro(current_version) = <<9, 10, 0>>
    /\ major_minor_micro(DecidedTarget) = <<9, 9, 10>>
    /\ CompareVersions(DecidedTarget, current_version) = "upgrade"

\* C15. DONE detection: a step that resolved its target and read a current
\* version equal to the resolved target, or containing the target
\* specifier, ends the run in DONE and returns without a change request.
C15_DoneOnLooseMatch ==
    (/\ last = "StepResolve" /\ exc = "none"
     /\ current_version # None /\ exact_max_version # None
     /\ \/ current_version = exact_max_version
        \/ StrIn(max_version, current_version)) =>
        (outcome = "DONE" /\ Unwinding)

(* ---------------- the run under fair scheduling ------------------------- *)
\* Path tables with a cycle: 5.0 to 5.2.7 and 5.2 back to 5.0.3.
UpCyclic   == << [pattern |-> P_5_0, hop |-> V_5_2_7],
                 [pattern |-> P_5_2, hop |-> V_5_0_3] >>
DownCyclic == << [pattern |-> P_5_2, hop |-> V_5_0_3],
                 [pattern |-> P_5_0, hop |-> V_5_2_7] >>

InitLive ==
    /\ \/ upTable = upgrade_path_regex /\ downTable = downgrade_path_regex
       \/ upTable = UpCyclic /\ downTable = DownCyclic
    /\ cli_action = "auto"
    /\ max_steps \in 0..MaxStepsBound
    /\ max_wait \in WaitBudgets
    /\ version_target \in {None, V_4_5_3}
    /\ catalog \in {CatFull, CatNoHop}
    /\ devVersion \in {V_4_5_9, V_5_0_3, V_5_4_1}
    /\ startVersion = devVersion
    /\ InitRest

\* The steps of the script: a sequential program, each of whose calls
\* returns (time.sleep returns after its interval, an API call with a
\* result).
ScriptNext ==
    \/ FindIon \/ DecideGetImages \/ DecideGetVersion \/ Decide \/ GoCheck
    \/ StepEntry \/ StepGetImages \/ StepGetVersion \/ StepResolve \/ StepPath
    \/ ExecGet \/ ExecPut \/ WaitFirstRead \/ WaitSleep \/ WaitReturn
    \/ PostCall \/ Logout

SpecLive == InitLive /\ [][Next]_vars /\ WF_vars(ScriptNext)

TerminalOutcomes == {"DONE", "STEP_FAILED", "LIMIT_REACHED"}

\* The most sleeps one wait can make, and the sleeps the wait at hand can
\* still make.
MaxSleeps == (max_wait + SleepInterval - 1) \div SleepInterval
RemSleeps == IF w_left > 0 THEN (w_left + SleepInterval - 1) \div SleepInterval ELSE 0

\* A bound on the steps the script can still take: the frames that can
\* still be entered, each with its calls and its wait, the rest of the frame
\* at hand, and the returns.
FrameCost == MaxSleeps + 9
Rank ==
    LET unwind == max_steps + 3
        frame(rest) == (max_steps - step) * FrameCost + rest + unwind
    IN  CASE pc \in {"exit", "crashed"} -> 0
          [] pc = "logout"         -> 1
          [] pc = "post_call"      -> step + 1
          [] pc = "wait_loop"      -> frame(RemSleeps + 1)
          [] pc = "wait_first"     -> frame(MaxSleeps + 2)
          [] pc = "exec_put"       -> frame(MaxSleeps + 3)
          [] pc = "exec_get"       -> frame(MaxSleeps + 4)
          [] pc = "step_path"      -> frame(MaxSleeps + 5)
          [] pc = "step_resolve"   -> frame(MaxSleeps + 6)
          [] pc = "step_version"   -> frame(MaxSleeps + 7)
          [] pc = "step_images"    -> frame(MaxSleeps + 8)
          [] pc = "step_entry"     -> frame(0)
          [] pc = "go_check"       -> frame(1)
          [] pc = "decide"         -> frame(2)
          [] pc = "decide_version" -> frame(3)
          [] pc = "decide_images"  -> frame(4)
          [] pc = "find_ion"       -> frame(5)

DeciderTarget ==
    get_exact_major_minor_micro(
        IF version_target = None THEN MaxKey(catalog) ELSE version_target,
        catalog)

\* C17. Decider and engine agree on the target: with the repository
\* unchanged since the decider listed it, the exact target the engine
\* resolves in its first step is the version the decider compared against.
C17_SameTarget ==
    (last = "StepResolve" /\ exc = "none" /\ nreq = 0 /\ catChanges = 0) =>
        exact_max_version = DeciderTarget

\* C18. No overshoot: a change request of an upgrade run whose target
\* resolved is for an image not above the resolved target by (major, minor,
\* micro), and one of a downgrade run for an image not below it.
C18_NoOvershoot ==
    (last = "StepPath" /\ pc = "exec_get" /\ exact_max_version # None) =>
        LET hop    == major_minor_micro(upgrade_version)
            target == major_minor_micro(exact_max_version)
        IN  /\ action = "upgrade" => ~TupleLess(target, hop)
            /\ action = "downgrade" => ~TupleLess(hop, target)

\* C19. LIMIT_REACHED means target not reached: when a frame ends the run
\* because step > max_steps, the device is not at the target the run
\* resolved, neither by exact string nor by containing the specifier.
C19_LimitMeansNotAtTarget ==
    (last = "StepEntry" /\ outcome = "LIMIT_REACHED" /\ max_version # None) =>
        /\ devVersion # get_exact_major_minor_micro(max_version, catalog)
        /\ ~StrIn(max_version, devVersion)

\* Every hop specifier of the two tables that resolves in dict resolves to a
\* key with the specifier's own major.minor.micro.
HopsResolveToSameVersion(dict) ==
    \A t \in {upgrade_path_regex, downgrade_path_regex} :
        \A i \in 1..Len(t) :
            LET key == get_exact_major_minor_micro(t[i].hop, dict)
            IN  key # None => major_minor_micro(key) = major_minor_micro(t[i].hop)

\* a is below b by (major, minor).
MajorMinorLess(a, b) ==
    LET x == major_minor_micro(a)
        y == major_minor_micro(b)
    IN  x[1] < y[1] \/ (x[1] = y[1] /\ x[2] < y[2])

====
